---- MODULE Spec2Model ----
(***************************************************************************)
(* Workshop attendance system: the live attendance core.                   *)
(*                                                                         *)
(*   - the check-in store (tables attendees and attendance of              *)
(*     database_schema.sql, with their UNIQUE constraints);                *)
(*   - the Check-in Registrar and the Event Broadcaster (the FastAPI       *)
(*     backend, which the repository names but does not ship: modelled     *)
(*     from spec.md sections 4.1, 4.2 and 6);                              *)
(*   - the Client Reconciler of the React front end (App: loadLiveAttendees,*)
(*     connectLiveStream, the live-tracking effect).                       *)
(***************************************************************************)
EXTENDS FiniteSets, Integers, Sequences, TLC

\* ------------------------------------------------------------------ bounds
\* Number of POST /scan requests (checkIn calls) in a run.
MaxCalls == 2
\* Number of EventSource objects the viewers create in a run.
MaxStreams == 3
\* Number of GET /attendees/live requests the viewers issue in a run.
MaxLoads == 2
\* Longest view and longest run of stream messages the reconciler is given.
MaxViewLen == 2
MaxMsgs == 2
\* The bound of a session's outbound buffer, in messages.
MaxOutbox == 2
\* Most rescans of one code after a TransientStoreFailure.
MaxRetries == 1

\* ------------------------------------------------------------ value sets
\* attendees.id values (uuid_generate_v4) the run may use.
AttendeeIds == {"a1", "a2"}
\* Order in which ids are issued and in which GET /attendees/live lists rows.
AttendeeOrder == <<"a1", "a2">>
\* attendees.qr_data values; "tx" is a token that is never issued.
Tokens == {"t1", "t2"}
ScanInputs == Tokens \cup {"tx"}
\* Dashboard viewers (browser instances of App).
Viewers == {"v1", "v2"}
CallIds == 1..MaxCalls
StreamIds == 1..MaxStreams
LoadIds == 1..MaxLoads

\* JavaScript null / undefined.
Null == "null"
Undefined == "undefined"
\* entry_time of an attendee with no Check-in Event (null in the snapshot).
NoEntryTime == 0
\* leftAt of a session that has not left the subscriber set.
NotLeft == -1
\* The eventSource state when it holds no stream (useState(null)).
NoEventSource == 0

\* ------------------------------------------------------------- variables
VARIABLES
    attendees,      \* table attendees: set of rows [id, qr_data]
    attendance,     \* table attendance: sequence of rows [attendee_id, entry_time]
    now,            \* server clock (NOW())
    calls,          \* checkIn calls: CallIds -> [pc, token, attendee, result, entry_time, via]
    sessions,       \* Broadcaster: the subscriber set (stream ids)
    outbox,         \* Broadcaster: per-session outbound queue, StreamIds -> Seq(msg)
    published,      \* history: events in the order publish was called
    notified,       \* history: attendees handed to the notification dispatcher, in order
    subscribedAt,   \* history: StreamIds -> Len(published) when the session subscribed
    delivered,      \* history: StreamIds -> Seq(msg) handed to es.onmessage
    leftAt,         \* history: StreamIds -> Len(published) when the session left the subscriber set
    activeTab,      \* React state activeTab: Viewers -> "dashboard" | "live"
    es,             \* EventSource objects: StreamIds -> [owner, state]
    eventSource,    \* React state eventSource: Viewers -> stream id or NoEventSource
    liveAttendees,  \* React state liveAttendees: Viewers -> Seq(entry)
    loads,          \* GET /attendees/live requests: LoadIds -> [owner, pc, body]
    timers,         \* pending setTimeout(connectLiveStream, 5000): the streams whose onerror set one
    pulled,         \* history: Viewers -> a snapshot pull was issued since the last stream failure
    scanShown,      \* the notification the scanner showed for a call: CallIds -> [kind, message]
    liveSearch,     \* React state liveSearch: Viewers -> search text (sequence of characters)
    auth,           \* React auth state and localStorage: Viewers -> [view, loginType, role, token, staffInfo, stored]
    login,          \* POST /staff/login in flight: Viewers -> [pc, account]
    cleanup,        \* the eventSource value the pending cleanup of the live effect captured: Viewers -> stream id
    scanner,        \* the QR scanner of a viewer: Viewers -> [active, posts]
    dashboardData   \* React state dashboardData.batch_wise_data: Viewers -> Seq(batch row)

serverVars == <<attendees, attendance, now, calls>>
busVars == <<sessions, outbox, published, notified, subscribedAt, delivered, leftAt>>
clientVars == <<activeTab, es, eventSource, liveAttendees, loads>>
uiVars == <<timers, pulled, scanShown, liveSearch>>
appVars == <<auth, login, cleanup, scanner, dashboardData>>
vars == <<attendees, attendance, now, calls, sessions, outbox, published,
          notified, subscribedAt, delivered, leftAt, activeTab, es, eventSource, liveAttendees,
          loads, timers, pulled, scanShown, liveSearch, auth, login, cleanup,
          scanner, dashboardData>>

\* ------------------------------------------------------------ the store
\* An attendees table without the UNIQUE constraint on qr_data.
NoQrDataConstraint(rows, row) ==
    TRUE

\* attendees.qr_data VARCHAR(500) NOT NULL UNIQUE: a row may be inserted only
\* if no existing row carries the same qr_data.
QrDataUnique(rows, row) ==
    \A r \in rows : r.qr_data /= row.qr_data

\* attendees.id UUID PRIMARY KEY.
AttendeePkUnique(rows, row) ==
    \A r \in rows : r.id /= row.id

\* A schema without the UNIQUE(attendee_id) constraint accepts every row.
NoAttendanceConstraint(rows, row) ==
    TRUE

\* attendance: UNIQUE(attendee_id) -- one attendance per attendee. A row may
\* be inserted only if no existing row has the same attendee_id.
AttendanceUnique(rows, row) ==
    \A i \in 1..Len(rows) : rows[i].attendee_id /= row.attendee_id

\* attendance.attendee_id UUID NOT NULL REFERENCES attendees(id).
AttendanceFk(people, row) ==
    \E p \in people : p.id = row.attendee_id

\* The attendance rows of one attendee, as indices into the table.
RowsOf(a) ==
    {i \in 1..Len(attendance) : attendance[i].attendee_id = a}

\* A lookup that falls back to any attendee when the token matches none.
FindByTokenOrAny(tok) ==
    IF \E p \in attendees : p.qr_data = tok
    THEN {p \in attendees : p.qr_data = tok}
    ELSE attendees

\* RegistrationStore.findByToken(token): the attendees owning the token.
FindByToken(tok) ==
    {p \in attendees : p.qr_data = tok}

\* The existing Check-in Event's timestamp of an attendee that has one.
ExistingEntryTime(a) ==
    attendance[CHOOSE i \in RowsOf(a) : \A j \in RowsOf(a) : i <= j].entry_time

\* RegistrationStore.recordCheckIn(attendeeId, timestamp) -> {created}:
\* insert-or-fail against the table's constraints.
RecordCheckInCreated(row) ==
    /\ AttendanceFk(attendees, row)
    /\ AttendanceUnique(attendance, row)

\* --------------------------------------------------------- initial state
IdleCall == [pc |-> "idle", token |-> Null, attendee |-> Null,
             result |-> Null, entry_time |-> NoEntryTime, via |-> Null,
             tries |-> 0, from |-> Null]
NoStream == [owner |-> Null, state |-> "none", cap |-> NoEventSource, tok |-> Null]
NoScan == [kind |-> Null, message |-> Null]
NoLoad == [owner |-> Null, pc |-> "none", body |-> <<>>]

\* The accounts of the staff table and the answer of POST /staff/login to
\* each: a token and the account's role.
Accounts == {"staff", "admin"}
LoginData(account) == [token |-> "jwt-" \o account, role |-> account]
StaffData == LoginData("staff")

\* staffInfo when it is null, and localStorage without token and staffInfo.
NoStaffInfo == [token |-> Null, role |-> Null]
NoStored == [token |-> Null, staffInfo |-> NoStaffInfo]

\* The auth state of App at mount when localStorage holds stored (useState
\* initialisers), before the auto-login effect.
Mounted(stored) ==
    [view |-> "home", loginType |-> Null, role |-> Null,
     token |-> stored.token, staffInfo |-> stored.staffInfo, stored |-> stored]

\* The auto-login effect: with a token and staffInfo the view follows the
\* stored role.
AutoLogin(a) ==
    IF a.token /= Null /\ a.staffInfo /= NoStaffInfo
    THEN [a EXCEPT !.role = a.staffInfo.role,
                   !.view = IF a.staffInfo.role = "admin" THEN "admin" ELSE "staff"]
    ELSE a

\* A login request: the credentials sent and the loginType of the render
\* whose handleLogin sent them.
NoLogin == [pc |-> "none", account |-> Null, loginType |-> Null]
NoScanner == [active |-> FALSE, posts |-> 0]

\* Every viewer has mounted App with a staff account's credentials stored
\* and its dashboard not loaded yet.
AppInit ==
    /\ auth = [v \in Viewers |->
                  AutoLogin(Mounted([token |-> StaffData.token,
                                     staffInfo |-> StaffData]))]
    /\ login = [v \in Viewers |-> NoLogin]
    /\ cleanup = [v \in Viewers |-> NoEventSource]
    /\ scanner = [v \in Viewers |-> NoScanner]
    /\ dashboardData = [v \in Viewers |-> <<>>]

\* Store, broadcaster and viewers' live tracking before anything has happened.
QuietInit ==
    /\ attendees = {}
    /\ attendance = <<>>
    /\ now = 1
    /\ calls = [c \in CallIds |-> IdleCall]
    /\ sessions = {}
    /\ outbox = [s \in StreamIds |-> <<>>]
    /\ published = <<>>
    /\ notified = <<>>
    /\ subscribedAt = [s \in StreamIds |-> 0]
    /\ leftAt = [s \in StreamIds |-> NotLeft]
    /\ delivered = [s \in StreamIds |-> <<>>]
    /\ activeTab = [v \in Viewers |-> "dashboard"]
    /\ es = [s \in StreamIds |-> NoStream]
    /\ eventSource = [v \in Viewers |-> NoEventSource]
    /\ liveAttendees = [v \in Viewers |-> <<>>]
    /\ loads = [l \in LoadIds |-> NoLoad]
    /\ timers = {}
    /\ pulled = [v \in Viewers |-> FALSE]
    /\ scanShown = [c \in CallIds |-> NoScan]
    /\ liveSearch = [v \in Viewers |-> <<>>]

Init ==
    /\ QuietInit
    /\ AppInit

\* ----------------------------------------------------------- registration
\* Registration (single or bulk) creates an attendee row with its scan token.
Register(a, tok) ==
    LET row == [id |-> a, qr_data |-> tok] IN
    /\ AttendeePkUnique(attendees, row)
    /\ QrDataUnique(attendees, row)
    /\ \A i \in 1..Len(AttendeeOrder) :
          AttendeeOrder[i] = a =>
              \A j \in 1..(i - 1) : \E p \in attendees : p.id = AttendeeOrder[j]
    /\ attendees' = attendees \cup {row}
    /\ UNCHANGED <<attendance, now, calls>>
    /\ UNCHANGED busVars
    /\ UNCHANGED clientVars
    /\ UNCHANGED uiVars
    /\ UNCHANGED appVars

\* ------------------------------------------------------ Event Broadcaster
\* The partial-update event of a check-in, keyed by attendee identity.
CheckInEvent(a, t) ==
    [id |-> a, attendance_status |-> "P", entry_time |-> t]

\* The control message sent once at stream start.
ConnectedMsg == [type |-> "connected"]

\* A publish that puts the event at the front of each queue.
PublishToFront(boxes, open, event) ==
    [s \in StreamIds |-> IF s \in open THEN <<event>> \o boxes[s] ELSE boxes[s]]

\* A publish that queues the event for every stream, subscribed or not.
PublishToAll(boxes, open, event) ==
    [s \in StreamIds |-> Append(boxes[s], event)]

\* A backpressure test that finds no session over its bound.
NoOverflow(boxes, open) ==
    {}

\* The open sessions whose outbound buffer would grow past its bound if one
\* more event were queued.
Overflowing(boxes, open) ==
    {s \in open : Len(boxes[s]) >= MaxOutbox}

\* publish(event): the event is appended to the queue of every open session;
\* a session whose buffer would grow past its bound is dropped instead and its
\* buffer released.
PublishTo(boxes, open, event) ==
    [s \in StreamIds |->
        IF s \in Overflowing(boxes, open) THEN <<>>
        ELSE IF s \in open THEN Append(boxes[s], event)
        ELSE boxes[s]]

\* --------------------------------------------------- Check-in Registrar
\* POST /scan { qr_code }: a checkIn(token) call arrives at a worker, which
\* does the lookup and then the idempotency check: NotFound if no attendee
\* owns the token, AlreadyCheckedIn with the existing timestamp if a Check-in
\* Event exists, else on to the atomic insert.
CheckInLookup(c, tok) ==
    /\ \/ /\ calls[c].pc = "idle"
          /\ \A d \in CallIds : d < c => calls[d].pc /= "idle"
       \/ /\ calls[c].pc \in {"retry", "sent"}
          /\ tok = calls[c].token
    /\ LET found == FindByToken(tok) IN
       IF found = {}
       THEN calls' = [calls EXCEPT ![c] = [@ EXCEPT !.pc = "done", !.token = tok,
                                                    !.result = "NotFound",
                                                    !.via = "lookup"]]
       ELSE LET a == (CHOOSE p \in found : TRUE).id IN
            IF RowsOf(a) /= {}
            THEN calls' = [calls EXCEPT ![c] =
                              [@ EXCEPT !.pc = "done", !.token = tok,
                                        !.attendee = a,
                                        !.result = "AlreadyCheckedIn",
                                        !.entry_time = ExistingEntryTime(a),
                                        !.via = "lookup"]]
            ELSE calls' = [calls EXCEPT ![c] =
                              [@ EXCEPT !.pc = "record", !.token = tok,
                                        !.attendee = a]]
    /\ UNCHANGED <<attendees, attendance, now>>
    /\ UNCHANGED busVars
    /\ UNCHANGED clientVars
    /\ UNCHANGED uiVars
    /\ UNCHANGED appVars

\* recordCheckIn(attendeeId, now): the atomic insert. A constraint conflict
\* is translated to AlreadyCheckedIn with the existing event's timestamp.
CheckInRecord(c) ==
    /\ calls[c].pc = "record"
    /\ LET a == calls[c].attendee
           row == [attendee_id |-> a, entry_time |-> now] IN
       IF RecordCheckInCreated(row)
       THEN /\ attendance' = Append(attendance, row)
            /\ calls' = [calls EXCEPT ![c] =
                            [@ EXCEPT !.pc = "emit", !.result = "success",
                                      !.entry_time = now, !.via = "record"]]
       ELSE /\ attendance' = attendance
            /\ calls' = [calls EXCEPT ![c] =
                            [@ EXCEPT !.pc = "done",
                                      !.result = "AlreadyCheckedIn",
                                      !.entry_time = ExistingEntryTime(a),
                                      !.via = "record"]]
    /\ now' = now + 1
    /\ UNCHANGED attendees
    /\ UNCHANGED busVars
    /\ UNCHANGED clientVars
    /\ UNCHANGED uiVars
    /\ UNCHANGED appVars

\* The side effects of a successful check-in: one broadcast publish and one
\* notification dispatch (fire-and-forget).
CheckInEmit(c) ==
    /\ calls[c].pc = "emit"
    /\ LET event == CheckInEvent(calls[c].attendee, calls[c].entry_time) IN
       /\ outbox' = PublishTo(outbox, sessions, event)
       /\ published' = Append(published, event)
    /\ sessions' = sessions \ Overflowing(outbox, sessions)
    /\ leftAt' = [s \in StreamIds |->
                    IF s \in Overflowing(outbox, sessions) THEN Len(published)
                    ELSE leftAt[s]]
    /\ notified' = Append(notified, calls[c].attendee)
    /\ calls' = [calls EXCEPT ![c] = [@ EXCEPT !.pc = "done"]]
    /\ UNCHANGED <<attendees, attendance, now>>
    /\ UNCHANGED <<subscribedAt, delivered>>
    /\ UNCHANGED clientVars
    /\ UNCHANGED uiVars
    /\ UNCHANGED appVars

\* A session that loses every other session along with its own.
WriteFailDropAll(s) ==
    /\ s \in sessions
    /\ sessions' = {}
    /\ outbox' = [t \in StreamIds |-> <<>>]
    /\ leftAt' = [t \in StreamIds |->
                    IF t \in sessions THEN Len(published) ELSE leftAt[t]]
    /\ UNCHANGED <<published, notified, subscribedAt, delivered>>
    /\ UNCHANGED serverVars
    /\ UNCHANGED clientVars
    /\ UNCHANGED uiVars
    /\ UNCHANGED appVars

\* The transport write to a session fails: the session is removed from the
\* subscriber set and its buffer released; nothing is retried.
WriteFail(s) ==
    /\ s \in sessions
    /\ sessions' = sessions \ {s}
    /\ outbox' = [outbox EXCEPT ![s] = <<>>]
    /\ leftAt' = [leftAt EXCEPT ![s] = Len(published)]
    /\ UNCHANGED <<published, notified, subscribedAt, delivered>>
    /\ UNCHANGED serverVars
    /\ UNCHANGED clientVars
    /\ UNCHANGED uiVars
    /\ UNCHANGED appVars

\* The viewer has closed its EventSource: the server ends the Live Session,
\* removes it from the subscriber set and releases its buffer.
Unsubscribe(s) ==
    /\ s \in sessions
    /\ es[s].state = "closed"
    /\ sessions' = sessions \ {s}
    /\ outbox' = [outbox EXCEPT ![s] = <<>>]
    /\ leftAt' = [leftAt EXCEPT ![s] = Len(published)]
    /\ UNCHANGED <<published, notified, subscribedAt, delivered>>
    /\ UNCHANGED serverVars
    /\ UNCHANGED clientVars
    /\ UNCHANGED uiVars
    /\ UNCHANGED appVars

\* subscribe(): GET /attendees/stream reaches the server; a Live Session is
\* created and the connected control message is queued first.
Subscribe(s) ==
    /\ es[s].state = "connecting"
    /\ s \notin sessions
    /\ sessions' = sessions \cup {s}
    /\ outbox' = [outbox EXCEPT ![s] = <<ConnectedMsg>>]
    /\ subscribedAt' = [subscribedAt EXCEPT ![s] = Len(published)]
    /\ es' = [es EXCEPT ![s] = [@ EXCEPT !.state = "open"]]
    /\ UNCHANGED serverVars
    /\ UNCHANGED <<published, notified, delivered, leftAt>>
    /\ UNCHANGED <<activeTab, eventSource, liveAttendees, loads>>
    /\ UNCHANGED uiVars
    /\ UNCHANGED appVars

\* ------------------------------------------------------- snapshot query
\* attendees.name of an attendee (immutable, set at registration).
NameOf(a) == "name-" \o a

\* One attendee view record of the snapshot.
SnapshotRow(a) ==
    IF RowsOf(a) /= {}
    THEN [id |-> a, name |-> NameOf(a), attendance_status |-> "P",
          entry_time |-> ExistingEntryTime(a)]
    ELSE [id |-> a, name |-> NameOf(a), attendance_status |-> "A",
          entry_time |-> NoEntryTime]

\* GET /attendees/live: the snapshot array of all attendees' current state.
Snapshot ==
    LET registered(a) == \E p \in attendees : p.id = a
        ids == SelectSeq(AttendeeOrder, registered)
    IN [i \in 1..Len(ids) |-> SnapshotRow(ids[i])]

\* ----------------------------------------------------- Client Reconciler
\* obj.f of a JavaScript object: undefined when the key is absent.
Get(obj, f) == IF f \in DOMAIN obj THEN obj[f] ELSE Undefined

\* JavaScript truthiness of the values a message field can hold.
Truthy(x) == x \notin {Undefined, Null, ""}

\* prev.findIndex((a) => a.id === id): the first matching index, or -1.
FindIndex(prev, id) ==
    LET hits == {i \in 1..Len(prev) : Get(prev[i], "id") = id} IN
    IF hits = {} THEN -1 ELSE CHOOSE i \in hits : \A j \in hits : i <= j

\* An assignment of the event itself, dropping the keys it does not carry.
SpreadOnlyNew(a, b) == b

\* { ...a, ...b }: the keys of b overwrite those of a.
Spread(a, b) ==
    [f \in DOMAIN a \cup DOMAIN b |-> IF f \in DOMAIN b THEN b[f] ELSE a[f]]

\* An updater that inserts the event as a new row when the id is absent.
MergeEventUpsert(prev, msg) ==
    LET hits == {i \in 1..Len(prev) : prev[i].id = msg.id} IN
    IF hits = {} THEN Append(prev, msg)
    ELSE [i \in 1..Len(prev) |-> IF i \in hits THEN Spread(prev[i], msg) ELSE prev[i]]

\* An updater that pushes the merged row instead of assigning it in place.
MergeEventPush(prev, msg) ==
    LET hits == {i \in 1..Len(prev) : prev[i].id = msg.id} IN
    IF hits = {} THEN prev
    ELSE Append(prev, Spread(prev[CHOOSE i \in hits : TRUE], msg))

\* The updater given to setLiveAttendees: merge an incremental update.
MergeEvent(prev, msg) ==
    LET idx == FindIndex(prev, msg.id) IN
    IF idx = -1 THEN prev
    ELSE [prev EXCEPT ![idx] = Spread(prev[idx], msg)]

\* An onmessage body that merges the control message like any other.
OnMessageNoControl(prev, msg) ==
    IF Truthy(Get(msg, "id")) THEN MergeEvent(prev, msg) ELSE prev

\* The body of es.onmessage for a decoded message: a connected control
\* message returns at once, a message with an id is merged, others are dropped.
OnMessage(prev, msg) ==
    IF Get(msg, "type") = "connected" THEN prev
    ELSE IF Truthy(Get(msg, "id")) THEN MergeEvent(prev, msg)
    ELSE prev

\* A keepalive frame: its data is not JSON text. Every other frame is written
\* as the record its JSON text decodes to.
KeepAlive == [data |-> "keepalive"]

\* JSON.parse(evt.data) returns instead of throwing.
JsonParses(frame) ==
    "data" \notin DOMAIN frame

\* An onmessage handler that empties the view on an undecodable frame.
OnFrameReset(prev, frame) ==
    IF JsonParses(frame) THEN OnMessage(prev, frame) ELSE <<>>

\* es.onmessage with its try/catch: a frame that does not parse is ignored.
OnFrame(prev, frame) ==
    IF JsonParses(frame) THEN OnMessage(prev, frame) ELSE prev

\* The lowest unused id of a table of slots, or 0 when all are used.
FreeSlot(table, ids, unused) ==
    LET free == {i \in ids : table[i] = unused} IN
    IF free = {} THEN 0 ELSE CHOOSE i \in free : \A j \in free : i <= j

\* loadLiveAttendees(): issue GET /attendees/live.
LoadLiveAttendees(v, l) ==
    [loads EXCEPT ![l] = [owner |-> v, pc |-> "sent", body |-> <<>>]]

\* connectLiveStream() as the closure of one render runs it: the EventSource
\* that render saw in eventSource (captured) is closed, a new one is created
\* and stored. No snapshot is requested here.
ConnectLiveStream(streams, v, captured, tok, n) ==
    [i \in StreamIds |->
        IF i = n THEN [owner |-> v, state |-> "connecting", cap |-> captured,
                       tok |-> tok]
        ELSE IF i = captured /\ streams[i].state /= "none"
             THEN [streams[i] EXCEPT !.state = "closed"]
        ELSE streams[i]]

\* EventSource.close() on the stream s of a table of streams; closing no
\* stream (null) or a closed one changes nothing.
Closed(streams, s) ==
    [i \in StreamIds |->
        IF i = s /\ streams[i].state /= "none"
        THEN [streams[i] EXCEPT !.state = "closed"]
        ELSE streams[i]]

\* The live-tracking effect of viewer v after a render in which activeTab,
\* view or token changed. First the cleanup of the previous run, which closes
\* the EventSource its own render saw in eventSource and, if there was one,
\* clears the eventSource state. Then, when the viewer is on the staff Live
\* Tracking tab with a token (cond), loadLiveAttendees() and
\* connectLiveStream() back to back, the stream created without awaiting the
\* snapshot; connectLiveStream sees the eventSource of this render. The new
\* cleanup captures that same value.
LiveEffect(v, cond, tok) ==
    LET l == FreeSlot(loads, LoadIds, NoLoad)
        n == FreeSlot(es, StreamIds, NoStream)
        seen == eventSource[v]
        afterCleanup == Closed(es, cleanup[v]) IN
    /\ cond => (l /= 0 /\ n /= 0)
    /\ es' = IF cond THEN ConnectLiveStream(afterCleanup, v, seen, tok, n)
             ELSE afterCleanup
    /\ eventSource' = [eventSource EXCEPT ![v] =
                          IF cond THEN n
                          ELSE IF cleanup[v] /= NoEventSource THEN NoEventSource
                          ELSE @]
    /\ loads' = IF cond THEN LoadLiveAttendees(v, l) ELSE loads
    /\ pulled' = IF cond THEN [pulled EXCEPT ![v] = TRUE] ELSE pulled
    /\ cleanup' = [cleanup EXCEPT ![v] = seen]

\* The viewer clicks the Live Tracking tab of the staff view.
EnterLive(v) ==
    /\ auth[v].view = "staff"
    /\ activeTab[v] = "dashboard"
    /\ activeTab' = [activeTab EXCEPT ![v] = "live"]
    /\ LiveEffect(v, auth[v].token /= Null, auth[v].token)
    /\ UNCHANGED liveAttendees
    /\ UNCHANGED <<timers, scanShown, liveSearch>>
    /\ UNCHANGED <<auth, login, scanner, dashboardData>>
    /\ UNCHANGED serverVars
    /\ UNCHANGED busVars

\* The viewer clicks another tab while on Live Tracking.
LeaveLive(v) ==
    /\ activeTab[v] = "live"
    /\ activeTab' = [activeTab EXCEPT ![v] = "dashboard"]
    /\ LiveEffect(v, FALSE, auth[v].token)
    /\ UNCHANGED liveAttendees
    /\ UNCHANGED <<timers, scanShown, liveSearch>>
    /\ UNCHANGED <<auth, login, scanner, dashboardData>>
    /\ UNCHANGED serverVars
    /\ UNCHANGED busVars

\* The Refresh button of the Live Tracking tab: loadLiveAttendees().
Refresh(v) ==
    LET l == FreeSlot(loads, LoadIds, NoLoad) IN
    /\ activeTab[v] = "live"
    /\ l /= 0
    /\ loads' = LoadLiveAttendees(v, l)
    /\ pulled' = [pulled EXCEPT ![v] = TRUE]
    /\ UNCHANGED <<activeTab, es, eventSource, liveAttendees>>
    /\ UNCHANGED <<timers, scanShown, liveSearch>>
    /\ UNCHANGED appVars
    /\ UNCHANGED serverVars
    /\ UNCHANGED busVars

\* The server answers GET /attendees/live with the current snapshot.
ServeLive(l) ==
    /\ loads[l].pc = "sent"
    /\ loads' = [loads EXCEPT ![l] = [@ EXCEPT !.pc = "responded",
                                               !.body = Snapshot]]
    /\ UNCHANGED <<activeTab, es, eventSource, liveAttendees>>
    /\ UNCHANGED serverVars
    /\ UNCHANGED busVars
    /\ UNCHANGED uiVars
    /\ UNCHANGED appVars

\* loadLiveAttendees resumes with the response: setLiveAttendees(data.attendees).
ApplyLive(l) ==
    /\ loads[l].pc = "responded"
    /\ liveAttendees' = [liveAttendees EXCEPT ![loads[l].owner] = loads[l].body]
    /\ loads' = [loads EXCEPT ![l] = [@ EXCEPT !.pc = "done", !.body = <<>>]]
    /\ UNCHANGED <<activeTab, es, eventSource>>
    /\ UNCHANGED serverVars
    /\ UNCHANGED busVars
    /\ UNCHANGED uiVars
    /\ UNCHANGED appVars

\* loadLiveAttendees' catch branch: the request failed, the view is kept.
FailLive(l) ==
    /\ loads[l].pc \in {"sent", "responded"}
    /\ loads' = [loads EXCEPT ![l] = [@ EXCEPT !.pc = "failed", !.body = <<>>]]
    /\ UNCHANGED <<activeTab, es, eventSource, liveAttendees>>
    /\ UNCHANGED serverVars
    /\ UNCHANGED busVars
    /\ UNCHANGED uiVars
    /\ UNCHANGED appVars

\* The head of a session's queue reaches the viewer and es.onmessage runs.
Deliver(s) ==
    /\ s \in sessions
    /\ es[s].state = "open"
    /\ outbox[s] /= <<>>
    /\ LET msg == Head(outbox[s])
           v == es[s].owner IN
       /\ liveAttendees' = [liveAttendees EXCEPT ![v] = OnFrame(@, msg)]
       /\ delivered' = [delivered EXCEPT ![s] = Append(@, msg)]
    /\ outbox' = [outbox EXCEPT ![s] = Tail(@)]
    /\ UNCHANGED <<sessions, published, notified, subscribedAt, leftAt>>
    /\ UNCHANGED <<activeTab, es, eventSource, loads>>
    /\ UNCHANGED serverVars
    /\ UNCHANGED uiVars
    /\ UNCHANGED appVars

\* es.onerror: the stream failed. The handler closes it, clears the
\* eventSource state and sets a 5 s timer on connectLiveStream.
StreamError(s) ==
    /\ es[s].state \in {"connecting", "open"}
    /\ es' = [es EXCEPT ![s] = [@ EXCEPT !.state = "closed"]]
    /\ eventSource' = [eventSource EXCEPT ![es[s].owner] = NoEventSource]
    /\ timers' = timers \cup {s}
    /\ pulled' = [pulled EXCEPT ![es[s].owner] = FALSE]
    /\ UNCHANGED <<activeTab, liveAttendees, loads>>
    /\ UNCHANGED <<scanShown, liveSearch>>
    /\ UNCHANGED appVars
    /\ UNCHANGED serverVars
    /\ UNCHANGED busVars

\* The timer set by the onerror handler of stream s fires: connectLiveStream
\* of the render that created s runs again, tests the token of that render
\* and re-subscribes.
Reconnect(s) ==
    LET n == FreeSlot(es, StreamIds, NoStream) IN
    /\ s \in timers
    /\ n /= 0
    /\ timers' = timers \ {s}
    /\ IF es[s].tok = Null
       THEN UNCHANGED <<es, eventSource>>
       ELSE /\ es' = ConnectLiveStream(es, es[s].owner, es[s].cap, es[s].tok, n)
            /\ eventSource' = [eventSource EXCEPT ![es[s].owner] = n]
    /\ UNCHANGED <<activeTab, liveAttendees, loads>>
    /\ UNCHANGED <<pulled, scanShown, liveSearch>>
    /\ UNCHANGED appVars
    /\ UNCHANGED serverVars
    /\ UNCHANGED busVars

\* ------------------------------------------------------ login and logout
\* What is typed into the login form: the credentials of an account, or
\* credentials the server rejects.
Credentials == Accounts \cup {"nobody"}

\* handleLogin after an ok response carrying data: token, role, staffInfo
\* and localStorage are written first; then a non-admin account on the Admin
\* Login throws, which skips setView.
LoginThrows(loginType, data) == loginType = "admin" /\ data.role /= "admin"

HandleLogin(a, loginType, data) ==
    LET set == [a EXCEPT !.token = data.token,
                         !.role = data.role,
                         !.staffInfo = data,
                         !.stored = [token |-> data.token, staffInfo |-> data]]
    IN IF LoginThrows(loginType, data)
       THEN set
       ELSE [set EXCEPT !.view = IF data.role = "admin" THEN "admin" ELSE "staff"]

\* handleLogout on the auth state.
HandleLogoutKeepsToken(a) ==
    [a EXCEPT !.role = Null, !.staffInfo = NoStaffInfo, !.loginType = Null,
              !.stored = NoStored, !.view = "home"]

HandleLogout(a) ==
    [a EXCEPT !.token = Null, !.role = Null, !.staffInfo = NoStaffInfo,
              !.loginType = Null, !.stored = NoStored, !.view = "home"]

\* The Admin Login and Staff Login buttons of the home screen.
ChooseLogin(v, type) ==
    /\ auth[v].view = "home"
    /\ auth' = [auth EXCEPT ![v] = [@ EXCEPT !.loginType = type,
                                             !.view = "login-" \o type]]
    /\ UNCHANGED <<login, cleanup, scanner, dashboardData>>
    /\ UNCHANGED serverVars
    /\ UNCHANGED busVars
    /\ UNCHANGED clientVars
    /\ UNCHANGED uiVars

\* The Back button of the login screen.
Back(v) ==
    /\ auth[v].view \in {"login-admin", "login-staff"}
    /\ auth' = [auth EXCEPT ![v] = [@ EXCEPT !.loginType = Null,
                                             !.view = "home"]]
    /\ UNCHANGED <<login, cleanup, scanner, dashboardData>>
    /\ UNCHANGED serverVars
    /\ UNCHANGED busVars
    /\ UNCHANGED clientVars
    /\ UNCHANGED uiVars

\* The Login button (disabled while a request is loading): handleLogin sends
\* POST /staff/login.
SubmitLogin(v, cred) ==
    /\ auth[v].view \in {"login-admin", "login-staff"}
    /\ login[v].pc /= "sent"
    /\ login' = [login EXCEPT ![v] = [pc |-> "sent", account |-> cred,
                                       loginType |-> auth[v].loginType]]
    /\ UNCHANGED <<auth, cleanup, scanner, dashboardData>>
    /\ UNCHANGED serverVars
    /\ UNCHANGED busVars
    /\ UNCHANGED clientVars
    /\ UNCHANGED uiVars

\* The response to the login request comes back and handleLogin goes on:
\* a response that is not ok throws before anything is set. When the token
\* or the view changed, the live-tracking effect runs again.
LoginResponse(v) ==
    LET req == login[v]
        ok == req.account \in Accounts
        after == IF ok
                 THEN HandleLogin(auth[v], req.loginType, LoginData(req.account))
                 ELSE auth[v]
        failed == ~ok \/ LoginThrows(req.loginType, LoginData(req.account)) IN
    /\ req.pc = "sent"
    /\ login' = [login EXCEPT ![v] = [@ EXCEPT !.pc = IF failed THEN "failed"
                                                      ELSE "ok"]]
    /\ auth' = [auth EXCEPT ![v] = after]
    /\ IF after.token = auth[v].token /\ after.view = auth[v].view
       THEN UNCHANGED <<es, eventSource, loads, pulled, cleanup>>
       ELSE LiveEffect(v, /\ after.view = "staff"
                          /\ activeTab[v] = "live"
                          /\ after.token /= Null,
                       after.token)
    /\ UNCHANGED <<activeTab, liveAttendees>>
    /\ UNCHANGED <<timers, scanShown, liveSearch>>
    /\ UNCHANGED <<scanner, dashboardData>>
    /\ UNCHANGED serverVars
    /\ UNCHANGED busVars

\* The Logout button of the admin and staff views: handleLogout, and the
\* live-tracking effect that runs because view and token changed.
Logout(v) ==
    /\ auth[v].view \in {"admin", "staff"}
    /\ auth' = [auth EXCEPT ![v] = HandleLogout(@)]
    /\ activeTab' = [activeTab EXCEPT ![v] = "dashboard"]
    /\ LiveEffect(v, FALSE, Null)
    /\ UNCHANGED liveAttendees
    /\ UNCHANGED <<timers, scanShown, liveSearch>>
    /\ UNCHANGED <<login, scanner, dashboardData>>
    /\ UNCHANGED serverVars
    /\ UNCHANGED busVars

\* ------------------------------------------- store failures and retries
\* The store is unavailable when the worker looks the token up: the call
\* ends in TransientStoreFailure, nothing is read or written.
StoreFailLookup(c, tok) ==
    /\ \/ /\ calls[c].pc = "idle"
          /\ \A d \in CallIds : d < c => calls[d].pc /= "idle"
       \/ /\ calls[c].pc \in {"retry", "sent"}
          /\ tok = calls[c].token
    /\ calls' = [calls EXCEPT ![c] = [@ EXCEPT !.pc = "done", !.token = tok,
                                               !.result = "TransientStoreFailure",
                                               !.via = "lookup"]]
    /\ UNCHANGED <<attendees, attendance, now>>
    /\ UNCHANGED busVars
    /\ UNCHANGED clientVars
    /\ UNCHANGED uiVars
    /\ UNCHANGED appVars

\* The store is unavailable when the worker inserts: the call ends in
\* TransientStoreFailure and no row is committed.
StoreFailRecord(c) ==
    /\ calls[c].pc = "record"
    /\ calls' = [calls EXCEPT ![c] = [@ EXCEPT !.pc = "done",
                                               !.result = "TransientStoreFailure",
                                               !.via = "record"]]
    /\ UNCHANGED <<attendees, attendance, now>>
    /\ UNCHANGED busVars
    /\ UNCHANGED clientVars
    /\ UNCHANGED uiVars
    /\ UNCHANGED appVars

\* The operator scans the same code again after a TransientStoreFailure.
Rescan(c) ==
    /\ calls[c].pc = "done"
    /\ calls[c].result = "TransientStoreFailure"
    /\ calls[c].tries < MaxRetries
    /\ calls' = [calls EXCEPT ![c] = [IdleCall EXCEPT !.pc = "retry",
                                                      !.token = calls[c].token,
                                                      !.tries = calls[c].tries + 1]]
    /\ scanShown' = [scanShown EXCEPT ![c] = NoScan]
    /\ UNCHANGED <<attendees, attendance, now>>
    /\ UNCHANGED <<timers, pulled, liveSearch>>
    /\ UNCHANGED appVars
    /\ UNCHANGED busVars
    /\ UNCHANGED clientVars

\* ------------------------------------------------------------ scanner
\* The machine-readable kind of a POST /scan outcome.
ResponseKind(result) ==
    CASE result = "success" -> "success"
      [] result = "NotFound" -> "not_found"
      [] result = "AlreadyCheckedIn" -> "already_checked_in"
      [] OTHER -> "system_error"

\* The notification of the scanner's decode callback: the success text in
\* the try branch, one text for whatever apiCall threw in the catch branch.
ScanMessage(kind, a) ==
    IF kind = "success"
    THEN "Attendance marked for " \o NameOf(a) \o "!"
    ELSE "Invalid QR code or already scanned"

\* The finally branch of the decode callback: scanner.clear() and
\* setScannerActive(false) for the viewer whose scanner sent the request.
ScannerCleared(v) ==
    IF v = Null THEN scanner
    ELSE [scanner EXCEPT ![v] = [@ EXCEPT !.active = FALSE]]

\* The Start Scanner button: a new Html5QrcodeScanner is rendered.
StartScanner(v) ==
    /\ auth[v].view = "staff"
    /\ ~scanner[v].active
    /\ \A c \in CallIds : calls[c].from = v => scanShown[c] /= NoScan
    /\ scanner' = [scanner EXCEPT ![v] = [active |-> TRUE, posts |-> 0]]
    /\ UNCHANGED <<auth, login, cleanup, dashboardData>>
    /\ UNCHANGED serverVars
    /\ UNCHANGED busVars
    /\ UNCHANGED clientVars
    /\ UNCHANGED uiVars

\* The rendered scanner decodes a frame and calls the decode callback, which
\* sends POST /scan with the decoded text. The scanner keeps decoding until
\* it is cleared.
Decode(v, c, tok) ==
    /\ scanner[v].active
    /\ calls[c].pc = "idle"
    /\ \A d \in CallIds : d < c => calls[d].pc /= "idle"
    /\ calls' = [calls EXCEPT ![c] = [IdleCall EXCEPT !.pc = "sent",
                                                      !.token = tok,
                                                      !.from = v]]
    /\ scanner' = [scanner EXCEPT ![v] = [@ EXCEPT !.posts = @ + 1]]
    /\ UNCHANGED <<auth, login, cleanup, dashboardData>>
    /\ UNCHANGED <<attendees, attendance, now>>
    /\ UNCHANGED busVars
    /\ UNCHANGED clientVars
    /\ UNCHANGED uiVars

\* The response to POST /scan reaches the scanner's decode callback.
ScanShow(c) ==
    /\ calls[c].pc = "done"
    /\ scanShown[c] = NoScan
    /\ LET kind == ResponseKind(calls[c].result) IN
       scanShown' = [scanShown EXCEPT ![c] =
                        [kind |-> kind,
                         message |-> ScanMessage(kind, calls[c].attendee)]]
    /\ UNCHANGED <<timers, pulled, liveSearch>>
    /\ scanner' = ScannerCleared(calls[c].from)
    /\ UNCHANGED <<auth, login, cleanup, dashboardData>>
    /\ UNCHANGED serverVars
    /\ UNCHANGED busVars
    /\ UNCHANGED clientVars

\* fetch() rejects (the network is down): apiCall throws before any answer.
ScanTransportError(c) ==
    /\ calls[c].pc /= "idle"
    /\ scanShown[c] = NoScan
    /\ scanShown' = [scanShown EXCEPT ![c] =
                        [kind |-> "system_error",
                         message |-> ScanMessage("system_error", Null)]]
    /\ UNCHANGED <<timers, pulled, liveSearch>>
    /\ scanner' = ScannerCleared(calls[c].from)
    /\ UNCHANGED <<auth, login, cleanup, dashboardData>>
    /\ UNCHANGED serverVars
    /\ UNCHANGED busVars
    /\ UNCHANGED clientVars

\* ------------------------------------------------------------- search
\* A mobile number of an attendee, as the snapshot rows carry it.
MobileOf(a) == "90" \o a

\* The characters of the texts a row can hold.
Text(str) ==
    CASE str = NameOf("a1") -> <<"n", "a", "m", "e", "-", "a", "1">>
      [] str = NameOf("a2") -> <<"n", "a", "m", "e", "-", "a", "2">>
      [] str = NameOf("a3") -> <<"n", "a", "m", "e", "-", "a", "3">>
      [] str = MobileOf("a1") -> <<"9", "0", "a", "1">>
      [] str = MobileOf("a2") -> <<"9", "0", "a", "2">>
      [] OTHER -> <<>>

\* (x || ""): the text of a field, the empty text when the field is falsy.
OrEmpty(x) ==
    IF Truthy(x) THEN Text(x) ELSE <<>>

\* String.prototype.toLowerCase on the characters in use.
ToLowerCase(chars) ==
    [i \in 1..Len(chars) |->
        CASE chars[i] = "A" -> "a"
          [] chars[i] = "N" -> "n"
          [] OTHER -> chars[i]]

\* !liveSearch.trim(): the search text is empty or only white space.
TrimIsEmpty(chars) ==
    \A i \in 1..Len(chars) : chars[i] = " "

\* String.prototype.includes.
Includes(hay, needle) ==
    \E i \in 0..(Len(hay) - Len(needle)) :
        SubSeq(hay, i + 1, i + Len(needle)) = needle

\* The rows of a list matching the search text in name or mobile.
Matching(list, search) ==
    LET q == ToLowerCase(search)
        Keep(a) ==
            \/ Includes(ToLowerCase(OrEmpty(Get(a, "name"))), q)
            \/ Includes(ToLowerCase(OrEmpty(Get(a, "mobile"))), q)
    IN SelectSeq(list, Keep)

\* A filter without the blank-search test.
FilteredLiveNoBlankTest(list, search) ==
    Matching(list, search)

\* filteredLive: liveAttendees.filter(...) builds a new list; a blank search
\* keeps every row.
FilteredLive(list, search) ==
    IF TrimIsEmpty(search) THEN list ELSE Matching(list, search)

\* The search texts a viewer may type.
Searches ==
    {<<>>, <<" ">>, <<"1">>, <<"A", "2">>, <<"9", "0">>, <<"z">>, <<" ", "1">>}

\* The search box of the Live Tracking tab: onChange sets liveSearch.
SetLiveSearch(v, q) ==
    /\ activeTab[v] = "live"
    /\ q /= liveSearch[v]
    /\ liveSearch' = [liveSearch EXCEPT ![v] = q]
    /\ UNCHANGED <<timers, pulled, scanShown>>
    /\ UNCHANGED appVars
    /\ UNCHANGED serverVars
    /\ UNCHANGED busVars
    /\ UNCHANGED clientVars

\* ------------------------------------------------------- specification
\* The Check-in Registrar and the registration store.
RegistrarNext ==
    \/ \E a \in AttendeeIds, tok \in Tokens : Register(a, tok)
    \/ \E c \in CallIds, tok \in ScanInputs : CheckInLookup(c, tok)
    \/ \E c \in CallIds : CheckInRecord(c)
    \/ \E c \in CallIds : CheckInEmit(c)

\* The push channel between the Broadcaster and the viewers.
StreamNext ==
    \/ \E v \in Viewers : EnterLive(v)
    \/ \E s \in StreamIds : Subscribe(s)
    \/ \E s \in StreamIds : Deliver(s)

\* Failures of the transport under a Live Session.
TransportNext ==
    \E s \in StreamIds : WriteFail(s)

\* The snapshot query of the viewers.
SnapshotNext ==
    \/ \E v \in Viewers : Refresh(v)
    \/ \E l \in LoadIds : ServeLive(l)
    \/ \E l \in LoadIds : ApplyLive(l)
    \/ \E l \in LoadIds : FailLive(l)

\* Failure of a viewer's stream and the client's reconnection.
LifecycleNext ==
    \/ \E s \in StreamIds : StreamError(s)
    \/ \E s \in StreamIds : Reconnect(s)

Next == RegistrarNext \/ StreamNext \/ SnapshotNext

\* Registrar, broadcaster and viewers while every connection holds.
Spec == Init /\ [][Next]_vars

\* Registrar and broadcaster with their subscribers, over a transport that
\* may fail; the viewers' snapshot queries, which read the store and write
\* only the viewers' state, are left out.
BroadcastNext == RegistrarNext \/ StreamNext \/ TransportNext

SpecBroadcast == Init /\ [][BroadcastNext]_vars

\* A viewer's stream fails and is closed by the viewer; the server ends the
\* closed session.
CloseNext ==
    \/ \E s \in StreamIds : StreamError(s)
    \/ \E s \in StreamIds : Unsubscribe(s)

\* Registrar and broadcaster with viewers whose streams are closed.
SpecClose ==
    Init /\ [][RegistrarNext \/ StreamNext \/ CloseNext]_vars

\* Registrar and broadcaster over a transport that holds: a session leaves
\* the subscriber set only by backpressure.
SpecPublish == Init /\ [][RegistrarNext \/ StreamNext]_vars

\* The viewers alone: snapshot queries, streams, stream failures and
\* reconnections, while nobody registers or checks in.
ViewerNext == StreamNext \/ SnapshotNext \/ LifecycleNext

SpecViewer == Init /\ [][ViewerNext]_vars

\* Store outages during a check-in and the operator's retries.
RetryNext ==
    \/ \E c \in CallIds, tok \in ScanInputs : StoreFailLookup(c, tok)
    \/ \E c \in CallIds : StoreFailRecord(c)
    \/ \E c \in CallIds : Rescan(c)

\* The Registrar with a store that may be unavailable.
SpecRetry == Init /\ [][RegistrarNext \/ RetryNext]_vars

\* What the scanner shows for the outcome of a scan.
ScanNext ==
    \/ \E c \in CallIds : ScanShow(c)
    \/ \E c \in CallIds : ScanTransportError(c)

\* The operator's QR scanner.
ScannerNext ==
    \/ \E v \in Viewers : StartScanner(v)
    \/ \E v \in Viewers, c \in CallIds, tok \in ScanInputs : Decode(v, c, tok)

\* Scanner sessions of the viewers in front of the Registrar.
SpecScanner == Init /\ [][RegistrarNext \/ ScanNext \/ ScannerNext]_vars

\* The scanner in front of the Registrar.
SpecScan == Init /\ [][RegistrarNext \/ RetryNext \/ ScanNext]_vars

\* What localStorage may hold when App mounts: nothing, or the token and
\* staffInfo a successful login stored.
StoredStates ==
    {NoStored} \cup {[token |-> LoginData(a).token, staffInfo |-> LoginData(a)] :
                        a \in Accounts}

\* Every viewer has mounted App over some localStorage.
InitAuth ==
    /\ QuietInit
    /\ auth \in [Viewers -> {AutoLogin(Mounted(st)) : st \in StoredStates}]
    /\ login = [v \in Viewers |-> NoLogin]
    /\ cleanup = [v \in Viewers |-> NoEventSource]
    /\ scanner = [v \in Viewers |-> NoScanner]
    /\ dashboardData = [v \in Viewers |-> <<>>]

\* Logging in and out.
AuthNext ==
    \/ \E v \in Viewers, type \in {"admin", "staff"} : ChooseLogin(v, type)
    \/ \E v \in Viewers : Back(v)
    \/ \E v \in Viewers, cred \in Credentials : SubmitLogin(v, cred)
    \/ \E v \in Viewers : LoginResponse(v)
    \/ \E v \in Viewers : Logout(v)

\* The viewers' authentication alone.
SpecAuth == InitAuth /\ [][AuthNext]_vars

\* A viewer's visits to the Live Tracking tab.
VisitNext ==
    \/ \E v \in Viewers : EnterLive(v)
    \/ \E v \in Viewers : LeaveLive(v)
    \/ \E v \in Viewers : Logout(v)
    \/ \E s \in StreamIds : Subscribe(s)

\* The life of the viewers' streams: visits to the tab, logout, stream
\* failures and the reconnection timer.
SpecSession == Init /\ [][VisitNext \/ LifecycleNext]_vars


\* ================================================================ claims

\* C1: in every reachable state the check-in store holds at most one
\* attendance row per attendee, whatever tokens are scanned and however the
\* workers interleave.
C1_AtMostOneCheckInPerAttendee ==
    \A a \in AttendeeIds : Cardinality(RowsOf(a)) <= 1

\* A state in which an insert for an attendee that already has its row was
\* attempted and rejected by the store.
C1_Witness ==
    \E c \in CallIds :
        /\ calls[c].via = "record"
        /\ calls[c].result = "AlreadyCheckedIn"
        /\ Cardinality(RowsOf(calls[c].attendee)) = 1

\* The calls that raced on a token: each passed the idempotency check while
\* the attendee had no Check-in Event, and has returned from the insert.
RacedOn(tok) ==
    {c \in CallIds : calls[c].token = tok /\ calls[c].via = "record"}

\* C2: of the checkIn calls racing with the same valid token of a
\* not-yet-checked-in attendee, exactly one returns success and every other
\* returns AlreadyCheckedIn with the entry_time of the successful call.
C2_ExactlyOneSuccessInRace ==
    \A tok \in Tokens :
        RacedOn(tok) /= {} =>
            \E w \in RacedOn(tok) :
                /\ calls[w].result = "success"
                /\ \A c \in RacedOn(tok) \ {w} :
                      /\ calls[c].result = "AlreadyCheckedIn"
                      /\ calls[c].entry_time = calls[w].entry_time

\* Two calls raced on one token and both have returned.
C2_Witness ==
    \E tok \in Tokens : \E c, d \in RacedOn(tok) :
        /\ c /= d
        /\ calls[c].result = "success"
        /\ calls[d].result = "AlreadyCheckedIn"
        /\ calls[d].entry_time = calls[c].entry_time

\* A call c obtains its result in this step.
Returns(c) == calls[c].result = Null /\ calls'[c].result /= Null

\* C3: once an attendee is checked in it stays checked in with the same
\* entry_time, and every checkIn that returns afterwards for that attendee
\* returns AlreadyCheckedIn with that entry_time, never a fresh timestamp.
C3_CheckedInOnce ==
    [][\A a \in AttendeeIds :
          RowsOf(a) /= {} =>
              /\ RowsOf(a)' /= {}
              /\ ExistingEntryTime(a)' = ExistingEntryTime(a)
              /\ \A c \in CallIds :
                    (Returns(c) /\ calls'[c].attendee = a) =>
                        /\ calls'[c].result = "AlreadyCheckedIn"
                        /\ calls'[c].entry_time = ExistingEntryTime(a)]_vars

\* After a successful call, a later call that found the attendee checked in
\* at its lookup has returned.
C3_Witness ==
    \E c, d \in CallIds :
        /\ c < d
        /\ calls[c].result = "success"
        /\ calls[d].attendee = calls[c].attendee
        /\ calls[d].via = "lookup"
        /\ calls[d].result = "AlreadyCheckedIn"
        /\ calls[d].entry_time = calls[c].entry_time

\* No attendee owns the token.
Unowned(tok) == \A p \in attendees : p.qr_data /= tok

\* C4: checkIn with a token no attendee owns returns NotFound and changes
\* nothing: no Check-in Event, no attendee state, no broadcast event and no
\* notification.
C4_UnknownTokenNotFound ==
    [][\A c \in CallIds, tok \in ScanInputs :
          (CheckInLookup(c, tok) /\ Unowned(tok)) =>
              /\ calls'[c].result = "NotFound"
              /\ calls'[c].pc = "done"
              /\ UNCHANGED <<attendees, attendance, sessions, outbox,
                             published, notified, liveAttendees>>]_vars

\* A call with an unowned token has returned NotFound while attendees exist
\* and a session is subscribed.
C4_Witness ==
    \E c \in CallIds :
        /\ calls[c].result = "NotFound"
        /\ Unowned(calls[c].token)
        /\ attendees /= {}
        /\ sessions /= {}

\* Number of publish calls made for an attendee.
PublishedCount(a) ==
    Cardinality({i \in 1..Len(published) : published[i].id = a})

\* Number of notification dispatches made for an attendee.
NotifiedCount(a) ==
    Cardinality({i \in 1..Len(notified) : notified[i] = a})

\* The calls that succeeded for an attendee and have run their side effects.
Succeeded(a) ==
    {c \in CallIds : calls[c].attendee = a /\ calls[c].result = "success"
                     /\ calls[c].pc = "done"}

\* C5: every successful checkIn causes exactly one notification dispatch and
\* one broadcast publish, a failed one causes neither; each attendee is
\* published and dispatched at most once.
C5_OneDispatchPerSuccess ==
    \A a \in AttendeeIds :
        LET pub == PublishedCount(a)
            ntf == NotifiedCount(a)
        IN /\ pub = Cardinality(Succeeded(a))
           /\ ntf = Cardinality(Succeeded(a))
           /\ pub <= 1
           /\ ntf <= 1

\* One call has succeeded and emitted, another has failed for the same attendee.
C5_Witness ==
    \E c, d \in CallIds :
        /\ c \in Succeeded(calls[c].attendee)
        /\ calls[d].attendee = calls[c].attendee
        /\ calls[d].result = "AlreadyCheckedIn"
        /\ Len(published) = 1
        /\ Len(notified) = 1


\* The check-in events of a sequence of stream messages (control messages
\* left out).
EventsOf(msgs) ==
    SelectSeq(msgs, LAMBDA m : "id" \in DOMAIN m)

\* The events published since a session subscribed, in publish order.
PublishedSince(s) ==
    SubSeq(published, subscribedAt[s] + 1, Len(published))

\* C6: every event published while a session is subscribed is observed by
\* that session exactly once, and the events reach a session in the order
\* publish was called: what the session has received, followed by what is
\* still queued for it, is the sequence published since it subscribed.
C6_PerSessionFifo ==
    \A s \in sessions :
        EventsOf(delivered[s] \o outbox[s]) = PublishedSince(s)

\* Two sessions: one subscribed before the first publish and has received two
\* events, the other subscribed after the first publish and has received one.
C6_Witness ==
    \E s, t \in sessions :
        /\ s /= t
        /\ subscribedAt[s] = 0
        /\ Len(EventsOf(delivered[s])) = 2
        /\ subscribedAt[t] = 1
        /\ Len(EventsOf(delivered[t])) = 1


\* ------------------------------------------- the reconciler on its own
\* Identities, timestamps, view rows and stream messages given to the merge.
MergeIds == AttendeeIds \cup {"a3"}
MergeTimes == {1, 2}

MergeEntries ==
    {[id |-> a, name |-> NameOf(a), attendance_status |-> "A",
      entry_time |-> NoEntryTime] : a \in MergeIds}
    \cup {[id |-> a, name |-> NameOf(a), attendance_status |-> "P",
           entry_time |-> t] : a \in MergeIds, t \in MergeTimes}

\* Views as a snapshot delivers them: one row per attendee identity.
MergeViews ==
    {view \in UNION {[1..n -> MergeEntries] : n \in 0..MaxViewLen} :
        \A i, j \in 1..Len(view) : view[i].id = view[j].id => i = j}

\* Check-in events, a delivery-status update, the control message (also with
\* extra fields), a message that carries no id and a keepalive frame.
MergeMsgs ==
    {CheckInEvent(a, t) : a \in MergeIds, t \in MergeTimes}
    \cup {[id |-> "a1", entry_email_status |-> "sent"]}
    \cup {ConnectedMsg, [type |-> "connected", id |-> "a1", entry_time |-> 2]}
    \cup {[entry_time |-> 1], KeepAlive}

MergeQueues == UNION {[1..n -> MergeMsgs] : n \in 1..MaxMsgs}

\* One viewer on the Live Tracking tab with an open stream, any view and any
\* run of messages queued for it.
InitMerge ==
    /\ attendees = {}
    /\ attendance = <<>>
    /\ now = 1
    /\ calls = [c \in CallIds |-> IdleCall]
    /\ sessions = {1}
    /\ outbox \in {[s \in StreamIds |-> IF s = 1 THEN q ELSE <<>>] :
                      q \in MergeQueues}
    /\ published = <<>>
    /\ notified = <<>>
    /\ subscribedAt = [s \in StreamIds |-> 0]
    /\ leftAt = [s \in StreamIds |-> NotLeft]
    /\ delivered = [s \in StreamIds |-> <<>>]
    /\ activeTab = [v \in Viewers |-> IF v = "v1" THEN "live" ELSE "dashboard"]
    /\ es = [s \in StreamIds |->
                IF s = 1 THEN [owner |-> "v1", state |-> "open", cap |-> NoEventSource,
                              tok |-> StaffData.token]
                ELSE NoStream]
    /\ eventSource = [v \in Viewers |-> IF v = "v1" THEN 1 ELSE NoEventSource]
    /\ liveAttendees \in {[v \in Viewers |-> IF v = "v1" THEN view ELSE <<>>] :
                             view \in MergeViews}
    /\ loads = [l \in LoadIds |-> NoLoad]
    /\ timers = {}
    /\ pulled = [v \in Viewers |-> v = "v1"]
    /\ scanShown = [c \in CallIds |-> NoScan]
    /\ liveSearch = [v \in Viewers |-> <<>>]
    /\ AppInit

MergeNext == \E s \in StreamIds : Deliver(s)

SpecMerge == InitMerge /\ [][MergeNext]_vars

\* The view of the viewer that owns a stream.
ViewOf(s) == liveAttendees[es[s].owner]

\* The identities a view holds.
IdsIn(view) == {view[i].id : i \in 1..Len(view)}

\* The message at the head of a session's queue is a stream event: it is not
\* the control message and carries an attendee identity.
IsEvent(m) ==
    /\ ~("type" \in DOMAIN m /\ m.type = "connected")
    /\ "id" \in DOMAIN m

\* C8: applying a stream event whose attendee identity is absent from the
\* view leaves the view unchanged: nothing is inserted, nothing is modified.
C8_AbsentIdentityIgnored ==
    [][\A s \in StreamIds :
          (/\ Deliver(s)
           /\ IsEvent(Head(outbox[s]))
           /\ Head(outbox[s]).id \notin IdsIn(ViewOf(s)))
          => liveAttendees' = liveAttendees]_vars

\* An event for an identity the non-empty view does not hold has been applied.
C8_Witness ==
    \E s \in StreamIds :
        /\ delivered[s] /= <<>>
        /\ IsEvent(delivered[s][Len(delivered[s])])
        /\ delivered[s][Len(delivered[s])].id \notin IdsIn(ViewOf(s))
        /\ ViewOf(s) /= <<>>

\* C9: applying the same stream event a second time leaves the view as the
\* first application left it, for every view and every event.
C9_MergeIdempotent ==
    [][\A s \in StreamIds :
          (/\ Deliver(s)
           /\ delivered[s] /= <<>>
           /\ IsEvent(Head(outbox[s]))
           /\ Head(outbox[s]) = delivered[s][Len(delivered[s])])
          => liveAttendees' = liveAttendees]_vars

\* The same event has been applied twice in a row to a view that holds its
\* identity.
C9_Witness ==
    \E s \in StreamIds :
        /\ Len(delivered[s]) = 2
        /\ delivered[s][1] = delivered[s][2]
        /\ IsEvent(delivered[s][2])
        /\ delivered[s][2].id \in IdsIn(ViewOf(s))

\* C10: applying a stream event whose identity is present changes only the
\* entry with that identity: the keys the event carries are overwritten, the
\* others are kept; every other entry, the length and the order are unchanged.
C10_MergeInPlace ==
    [][\A s \in StreamIds :
          (/\ Deliver(s)
           /\ IsEvent(Head(outbox[s]))
           /\ Head(outbox[s]).id \in IdsIn(ViewOf(s)))
          => LET m == Head(outbox[s])
                 old == ViewOf(s)
                 new == liveAttendees'[es[s].owner]
             IN /\ Len(new) = Len(old)
                /\ \A i \in 1..Len(old) :
                      IF old[i].id = m.id
                      THEN /\ DOMAIN new[i] = DOMAIN old[i] \cup DOMAIN m
                           /\ \A f \in DOMAIN new[i] :
                                 new[i][f] = IF f \in DOMAIN m THEN m[f]
                                             ELSE old[i][f]
                      ELSE new[i] = old[i]
                /\ \A v \in Viewers :
                      v /= es[s].owner => liveAttendees'[v] = liveAttendees[v]]_vars

\* A check-in event has been merged into a two-row view: its row shows the
\* event's entry_time and keeps its name, the other row is still absent.
C10_Witness ==
    \E s \in StreamIds :
        LET view == ViewOf(s) IN
        /\ Len(delivered[s]) = 1
        /\ delivered[s][1] = CheckInEvent("a2", 2)
        /\ Len(view) = 2
        /\ view[1].id = "a1"
        /\ view[1].attendance_status = "A"
        /\ view[2] = [id |-> "a2", name |-> NameOf("a2"),
                      attendance_status |-> "P", entry_time |-> 2]


\* A viewer has caught up: it is on the Live Tracking tab with its stream
\* open and subscribed, a snapshot response has been applied and none is in
\* flight, every successful check-in has been published and every event
\* queued for the viewer's session has been delivered.
CaughtUp(v) ==
    /\ activeTab[v] = "live"
    /\ eventSource[v] /= NoEventSource
    /\ es[eventSource[v]].state = "open"
    /\ eventSource[v] \in sessions
    /\ outbox[eventSource[v]] = <<>>
    /\ \A c \in CallIds : calls[c].pc /= "emit"
    /\ \E l \in LoadIds : loads[l].owner = v /\ loads[l].pc = "done"
    /\ \A l \in LoadIds :
          loads[l].owner = v => loads[l].pc \notin {"sent", "responded"}

\* The view shows an attendee as checked in at a given time.
ShownCheckedIn(view, a, t) ==
    \E i \in 1..Len(view) : view[i].id = a /\ view[i].entry_time = t

\* C7: a viewer never permanently misses a check-in: once the snapshot
\* response has been applied and every published event has been delivered,
\* each attendee checked in at the server is shown as checked in, with its
\* entry_time, in the viewer's view.
C7_NeverMissesCheckIn ==
    \A v \in Viewers :
        CaughtUp(v) =>
            \A a \in AttendeeIds :
                RowsOf(a) /= {} =>
                    ShownCheckedIn(liveAttendees[v], a, ExistingEntryTime(a))


\* ---------------------------------------------------------------- C11
\* C11: after a stream failure the client pulls a fresh full snapshot before
\* it subscribes again: whenever a viewer creates a new stream, a snapshot
\* pull has been issued by that viewer since its last stream failure (or since
\* it opened the tab). The timer of es.onerror calls connectLiveStream alone,
\* so the reconnection creates the stream with no pull since the failure.
C11_RepullBeforeResubscribe ==
    [][\A n \in StreamIds :
          (es[n].state = "none" /\ es'[n].state = "connecting")
              => pulled'[es'[n].owner]]_vars

\* ---------------------------------------------------------------- C12
\* The first snapshot request of viewer v (the one its tab entry issued) has
\* not completed yet.
InitialPullPending(v) ==
    \E l \in LoadIds :
        /\ loads[l].owner = v
        /\ \A j \in LoadIds : loads[j].owner = v => l <= j
        /\ loads[l].pc \in {"sent", "responded"}

\* C12: a connecting viewer pulls the full snapshot first and only then
\* attaches the stream: no stream of a viewer is connecting or open while the
\* viewer's initial snapshot pull has not completed. The effect calls
\* loadLiveAttendees() and connectLiveStream() back to back, so the stream
\* exists while the pull is still in flight.
C12_SnapshotBeforeStream ==
    \A s \in StreamIds :
        es[s].state \in {"connecting", "open"} => ~InitialPullPending(es[s].owner)


\* ---------------------------------------------------------------- C13
\* The kinds of failure the operator must be able to tell apart.
FailureKinds == {"already_checked_in", "not_found", "system_error"}

\* C13: a failed scan gives a distinct message for each kind of failure:
\* two scans that failed for different reasons (already checked in, unknown
\* code, system or transport error) never show the same text. The scanner's
\* catch branch shows one text for every failure.
C13_DistinctFailureMessages ==
    \A c, d \in CallIds :
        (/\ scanShown[c].kind \in FailureKinds
         /\ scanShown[d].kind \in FailureKinds
         /\ scanShown[c].kind /= scanShown[d].kind)
            => scanShown[c].message /= scanShown[d].message

\* ---------------------------------------------------------------- C19
\* Some attendee owns the token.
Owned(tok) ==
    \E p \in attendees : p.qr_data = tok

\* The id of the attendee owning the token.
OwnerOf(tok) ==
    (CHOOSE p \in attendees : p.qr_data = tok).id

\* Call d is a rescan that has just ended, for a code that belongs to an
\* attendee.
RetryEnds(d) ==
    /\ calls[d].tries > 0
    /\ calls[d].pc \in {"retry", "record"}
    /\ calls'[d].pc \in {"emit", "done"}
    /\ Owned(calls'[d].token)

\* The retry's result is success or AlreadyCheckedIn and carries the
\* entry_time of the attendee's one Check-in Event.
EndsWithRecordedTime(d) ==
    /\ calls'[d].result \in {"success", "AlreadyCheckedIn"}
    /\ \E i \in 1..Len(attendance') :
          /\ attendance'[i].attendee_id = OwnerOf(calls'[d].token)
          /\ attendance'[i].entry_time = calls'[d].entry_time

\* Call d is a rescan and takes this step.
RetryStep(d) ==
    /\ calls[d].tries > 0
    /\ calls'[d] /= calls[d]

\* After the step no attendee has two Check-in Events, stored or published.
SingleCheckInEvent ==
    \A a \in AttendeeIds :
        /\ Cardinality({i \in 1..Len(attendance') : attendance'[i].attendee_id = a}) <= 1
        /\ Cardinality({i \in 1..Len(published') : published'[i].id = a}) <= 1

\* C19 as stated: a scan that ended in TransientStoreFailure is safely
\* retryable: no retry produces a second Check-in Event for the attendee, and
\* each retry ends in success or AlreadyCheckedIn with the single recorded
\* entry_time.
C19_EveryRetryEndsRecorded ==
    [][/\ \A d \in CallIds : RetryStep(d) => SingleCheckInEvent
       /\ \A d \in CallIds : RetryEnds(d) => EndsWithRecordedTime(d)]_vars

\* C19, amended: no retry produces a second Check-in Event for the attendee,
\* and each retry that does not itself end in TransientStoreFailure ends in
\* success or AlreadyCheckedIn with the single recorded entry_time.
C19_RetrySafe ==
    [][/\ \A d \in CallIds : RetryStep(d) => SingleCheckInEvent
       /\ \A d \in CallIds :
             (RetryEnds(d) /\ calls'[d].result /= "TransientStoreFailure")
                 => EndsWithRecordedTime(d)]_vars

\* A rescan lost the insert race against another call and returned
\* AlreadyCheckedIn with the recorded entry_time.
C19_Witness ==
    \E d \in CallIds :
        /\ calls[d].tries > 0
        /\ calls[d].pc = "done"
        /\ calls[d].result = "AlreadyCheckedIn"
        /\ calls[d].via = "record"
        /\ \E i \in RowsOf(calls[d].attendee) :
              attendance[i].entry_time = calls[d].entry_time


\* ---------------------------------------------------------------- C14
\* Session s is removed in this step without any publish: its delivery failed.
RemovedByFailure(s) ==
    /\ s \in sessions
    /\ s \notin sessions'
    /\ published' = published

\* C14: a delivery failure to one Live Session removes only that session:
\* every other open session stays open with its queue and what it received
\* untouched, so it still has every event published since it subscribed, and
\* the Registrar's calls and Check-in Events are unaffected.
C14_FailureIsolated ==
    [][\A s \in StreamIds :
          RemovedByFailure(s) =>
              /\ sessions' = sessions \ {s}
              /\ \A t \in sessions' :
                    /\ outbox'[t] = outbox[t]
                    /\ delivered'[t] = delivered[t]
                    /\ EventsOf(delivered'[t] \o outbox'[t])
                          = SubSeq(published', subscribedAt'[t] + 1, Len(published'))
              /\ calls' = calls
              /\ attendance' = attendance]_vars

\* One session's delivery failed before the only event was published; the
\* other session is open and has received that event.
C14_Witness ==
    \E s, t \in StreamIds :
        /\ s /= t
        /\ s \notin sessions
        /\ es[s].state = "open"
        /\ subscribedAt[s] = 0
        /\ t \in sessions
        /\ Len(published) = 1
        /\ EventsOf(delivered[t]) = published

\* ---------------------------------------------------------------- C15
\* The step publishes an event.
Publishes ==
    Len(published') = Len(published) + 1

\* C15: publish never blocks on a slow subscriber: a call that has to publish
\* can always do so, the publishing call completes, a session whose buffer is
\* at its bound is dropped, every other open session gets the event appended,
\* and no buffer ever holds more than its bound.
C15_PublishNeverBlocks ==
    [][/\ \A c \in CallIds : calls[c].pc = "emit" => ENABLED CheckInEmit(c)
       /\ \A s \in StreamIds : Len(outbox'[s]) <= MaxOutbox
       /\ Publishes =>
             /\ \E c \in CallIds : calls[c].pc = "emit" /\ calls'[c].pc = "done"
             /\ \A s \in sessions :
                   IF Len(outbox[s]) >= MaxOutbox
                   THEN s \notin sessions'
                   ELSE /\ s \in sessions'
                        /\ outbox'[s] = Append(outbox[s], published'[Len(published')])]_vars

\* A slow session was dropped by the second publish while the other session,
\* which had read its queue, received both events.
C15_Witness ==
    \E s, t \in StreamIds :
        /\ s /= t
        /\ s \notin sessions
        /\ es[s].state = "open"
        /\ delivered[s] = <<>>
        /\ outbox[s] = <<>>
        /\ t \in sessions
        /\ Len(published) = 2
        /\ EventsOf(delivered[t] \o outbox[t]) = published
        /\ \A c \in CallIds : calls[c].pc = "done"


\* ---------------------------------------------------------------- C16
\* The message is a connected control message, whatever else it carries.
IsControl(m) ==
    "type" \in DOMAIN m /\ m.type = "connected"

\* The viewer's side of a stream is as it was: same streams, same stored
\* EventSource, no reconnection timer, no snapshot request.
StreamUntouched ==
    /\ es' = es
    /\ eventSource' = eventSource
    /\ timers' = timers
    /\ loads' = loads

\* C16: a connected control message is a no-op for the reconciler whatever
\* other fields it carries: delivering it leaves the view unchanged, also
\* when it names an attendee that is in the view.
C16_ConnectedIsNoOp ==
    [][\A s \in StreamIds :
          (Deliver(s) /\ IsControl(Head(outbox[s])))
              => (liveAttendees' = liveAttendees /\ StreamUntouched)]_vars

\* A connected message carrying the id and a new entry_time of an attendee
\* in the view has been delivered, and the attendee's row kept its old time.
C16_Witness ==
    \E s \in StreamIds :
        /\ \E k \in 1..Len(delivered[s]) :
              /\ IsControl(delivered[s][k])
              /\ "id" \in DOMAIN delivered[s][k]
              /\ \E i \in 1..Len(ViewOf(s)) :
                    /\ ViewOf(s)[i].id = delivered[s][k].id
                    /\ ViewOf(s)[i].entry_time /= delivered[s][k].entry_time
        /\ \A k \in 1..Len(delivered[s]) : IsControl(delivered[s][k])

\* ---------------------------------------------------------------- C18
\* C18: a stream message without a decodable payload (a heartbeat) is not an
\* error: delivering it leaves the view unchanged, the stream stays open and
\* no reconnection is started.
C18_HeartbeatIgnored ==
    [][\A s \in StreamIds :
          (Deliver(s) /\ ~JsonParses(Head(outbox[s])))
              => /\ liveAttendees' = liveAttendees
                 /\ StreamUntouched
                 /\ es'[s].state = "open"]_vars

\* A keepalive frame has been delivered to a viewer whose view is not empty;
\* the stream is still open and no timer is set.
C18_Witness ==
    \E s \in StreamIds :
        /\ delivered[s] /= <<>>
        /\ \A k \in 1..Len(delivered[s]) : delivered[s][k] = KeepAlive
        /\ ViewOf(s) /= <<>>
        /\ es[s].state = "open"
        /\ timers = {}


\* ---------------------------------------------------------------- C17
\* Rows as GET /attendees/live returns them, with a mobile number or an
\* empty one.
SearchEntries ==
    {[id |-> a, name |-> NameOf(a), mobile |-> MobileOf(a),
      attendance_status |-> "A", entry_time |-> NoEntryTime] : a \in AttendeeIds}
    \cup {[id |-> "a3", name |-> NameOf("a3"), mobile |-> "",
           attendance_status |-> "A", entry_time |-> NoEntryTime]}

SearchViews ==
    {view \in UNION {[1..n -> SearchEntries] : n \in 0..MaxViewLen} :
        \A i, j \in 1..Len(view) : view[i].id = view[j].id => i = j}

\* One viewer on the Live Tracking tab with an open stream, any view, an empty
\* search box and possibly a check-in event on its way.
InitSearch ==
    /\ attendees = {}
    /\ attendance = <<>>
    /\ now = 1
    /\ calls = [c \in CallIds |-> IdleCall]
    /\ sessions = {1}
    /\ outbox \in {[s \in StreamIds |-> IF s = 1 THEN q ELSE <<>>] :
                      q \in {<<>>, <<CheckInEvent("a1", 1)>>}}
    /\ published = <<>>
    /\ notified = <<>>
    /\ subscribedAt = [s \in StreamIds |-> 0]
    /\ leftAt = [s \in StreamIds |-> NotLeft]
    /\ delivered = [s \in StreamIds |-> <<>>]
    /\ activeTab = [v \in Viewers |-> IF v = "v1" THEN "live" ELSE "dashboard"]
    /\ es = [s \in StreamIds |->
                IF s = 1 THEN [owner |-> "v1", state |-> "open", cap |-> NoEventSource,
                              tok |-> StaffData.token]
                ELSE NoStream]
    /\ eventSource = [v \in Viewers |-> IF v = "v1" THEN 1 ELSE NoEventSource]
    /\ liveAttendees \in {[v \in Viewers |-> IF v = "v1" THEN view ELSE <<>>] :
                             view \in SearchViews}
    /\ loads = [l \in LoadIds |-> NoLoad]
    /\ timers = {}
    /\ pulled = [v \in Viewers |-> v = "v1"]
    /\ scanShown = [c \in CallIds |-> NoScan]
    /\ liveSearch = [v \in Viewers |-> <<>>]
    /\ AppInit

SearchNext ==
    \/ \E v \in Viewers, q \in Searches : SetLiveSearch(v, q)
    \/ \E s \in StreamIds : Deliver(s)

\* The search box and the reconciler of one viewer.
SpecSearch == InitSearch /\ [][SearchNext]_vars

\* The rows a viewer is shown.
Shown(v) == FilteredLive(liveAttendees[v], liveSearch[v])

\* seq keeps some rows of list, unmodified and in the order of list.
IsSubSeqOf(seq, list) ==
    \E keep \in SUBSET (1..Len(list)) :
        seq = SelectSeq(list, LAMBDA r : \E i \in keep : list[i] = r)

\* C17: search filtering is a pure view transform: typing in the search box
\* leaves the reconciled list unchanged, the filtered list holds only rows of
\* the reconciled list, unmodified and in order, and with the search cleared
\* (empty or blank) every entry is shown again.
C17_FilterIsPureView ==
    [][\A v \in Viewers :
          /\ liveSearch'[v] /= liveSearch[v] => liveAttendees' = liveAttendees
          /\ IsSubSeqOf(FilteredLive(liveAttendees'[v], liveSearch'[v]),
                        liveAttendees'[v])
          /\ TrimIsEmpty(liveSearch'[v])
                => FilteredLive(liveAttendees'[v], liveSearch'[v]) = liveAttendees'[v]]_vars

\* A search hides one of the two rows of the view and shows the other.
C17_Witness ==
    \E v \in Viewers :
        /\ ~TrimIsEmpty(liveSearch[v])
        /\ Len(liveAttendees[v]) = 2
        /\ Len(Shown(v)) = 1


\* ---------------------------------------------------------------- C20
\* C20: scan tokens are bound one-to-one to attendees: after every step no
\* two attendees share a token, every token resolves to at most one attendee,
\* and every attendee that existed before the step still has the token it was
\* created with.
C20_TokenOneToOne ==
    [][/\ \A p, q \in attendees' : p.qr_data = q.qr_data => p.id = q.id
       /\ \A tok \in ScanInputs :
             Cardinality({p \in attendees' : p.qr_data = tok}) <= 1
       /\ \A p \in attendees :
             \A q \in attendees' : q.id = p.id => q.qr_data = p.qr_data
       /\ \A p \in attendees : \E q \in attendees' : q.id = p.id]_vars

\* Two attendees are registered and two scans have resolved two different
\* tokens to the two of them.
C20_Witness ==
    /\ Cardinality(attendees) = 2
    /\ \E c, d \in CallIds :
          /\ calls[c].token /= calls[d].token
          /\ calls[c].attendee /= Null
          /\ calls[d].attendee /= Null
          /\ calls[c].attendee /= calls[d].attendee


\* ---------------------------------------------------------------- C21
\* C21: after a Live Session is closed or unsubscribed it is no longer in
\* the Broadcaster's subscriber set and no event published afterwards is
\* delivered to it: a session that has left is not a subscriber, nothing is
\* queued for it, and the events it was handed are among those published
\* between its subscription and its leaving.
C21_ClosedSessionGetsNothing ==
    \A s \in StreamIds :
        leftAt[s] /= NotLeft =>
            /\ s \notin sessions
            /\ outbox[s] = <<>>
            /\ \E n \in 0..Len(EventsOf(delivered[s])) :
                  /\ subscribedAt[s] + n <= leftAt[s]
                  /\ EventsOf(delivered[s])
                        = SubSeq(published, subscribedAt[s] + 1, subscribedAt[s] + n)

\* A viewer closed a stream that had received the first event, the session
\* was unsubscribed, and a second event was published after that.
C21_Witness ==
    \E s \in StreamIds :
        /\ es[s].state = "closed"
        /\ leftAt[s] = 1
        /\ Len(EventsOf(delivered[s])) = 1
        /\ Len(published) = 2


\* ---------------------------------------------------------------- C23
\* C23: in a viewer's view an attendee never reverts from checked-in to
\* not-checked-in: an entry that shows an entry_time keeps showing it after
\* every step, whatever snapshot response or stream event the step applies.
\* loadLiveAttendees replaces the view with whatever the response holds, so a
\* response read before the check-in and applied after the stream event
\* puts the attendee back to absent.
C23_NeverRevertsToAbsent ==
    [][\A v \in Viewers : \A a \in AttendeeIds : \A t \in 1..now :
          ShownCheckedIn(liveAttendees[v], a, t)
              => ShownCheckedIn(liveAttendees'[v], a, t)]_vars


\* ---------------------------------------------------------------- C27
\* C27: one scanner session issues at most one POST /scan: between the start
\* of a scanner and its clearing, the decode callbacks of that scanner have
\* sent at most one request. The callback has no in-flight guard and the
\* scanner is cleared only when the response has come back, so a second
\* decoded frame sends a second request.
C27_OnePostPerScannerSession ==
    \A v \in Viewers : scanner[v].posts <= 1



\* ---------------------------------------------------------------- C28
\* C28: a failed login leaves the client unauthenticated: the step in which
\* a login request ends in failure changes neither the token state nor the
\* token and staffInfo of localStorage. handleLogin writes all of them
\* before it tests the admin privilege, so a staff account rejected on the
\* Admin Login leaves its token in the state and in localStorage.
C28_FailedLoginChangesNothing ==
    [][\A v \in Viewers :
          (login[v].pc = "sent" /\ login'[v].pc = "failed")
              => /\ auth'[v].token = auth[v].token
                 /\ auth'[v].stored = auth[v].stored]_vars


\* ---------------------------------------------------------------- C29
\* C29: a viewer in the admin or staff view holds a token, and a viewer in
\* the admin view has the role admin.
AuthConsistent ==
    \A v \in Viewers :
        /\ auth[v].view \in {"admin", "staff"} => auth[v].token /= Null
        /\ auth[v].view = "admin" => auth[v].role = "admin"

\* handleLogout leaves the view home, and token, role, staffInfo and the
\* stored credentials cleared.
LoggedOut(a) ==
    /\ a.view = "home"
    /\ a.token = Null
    /\ a.role = Null
    /\ a.staffInfo = NoStaffInfo
    /\ a.stored = NoStored

LiveStreams(v) ==
    {s \in StreamIds : es[s].owner = v /\ es[s].state \in {"connecting", "open"}}

\* The viewer is on the Live Tracking tab of the staff view.
OnLiveTab(v) == auth[v].view = "staff" /\ activeTab[v] = "live"

\* C22: a viewer holds a stream that is not closed only while on the Live
\* Tracking tab of the staff view: leaving the tab or logging out closes it.
\* The cleanup closes the eventSource its own render saw, which is null for
\* the visit that opened the stream, so the stream stays open.
C22_NoStreamOffLiveTab ==
    \A v \in Viewers : LiveStreams(v) /= {} => OnLiveTab(v)


\* ---------------------------------------------------------------- C24
\* C24: a viewer holds at most one stream that is not closed, whatever tab
\* switches, stream errors and reconnection timers have happened. The timer
\* runs the connectLiveStream of the render that created the failed stream,
\* which does not see, and so does not close, a stream opened since.
C24_AtMostOneStream ==
    \A v \in Viewers : Cardinality(LiveStreams(v)) <= 1


\* ---------------------------------------------------------------- C25
\* C25: no stream is opened for a viewer without a current token: every step
\* that creates a stream leaves its owner with a token. After logout the
\* pending timer runs a connectLiveStream whose token is the one of the
\* render that created the failed stream, and opens a stream.
C25_NoStreamWithoutToken ==
    [][\A s \in StreamIds :
          (es[s].state = "none" /\ es'[s].state /= "none")
              => auth'[es'[s].owner].token /= Null]_vars


\* ---------------------------------------------------------------- C26
\* C26: the Live/Offline indicator is truthful: the eventSource state of a
\* viewer is non-null exactly when the viewer holds a stream that is not
\* closed. The cleanup of a later visit clears the state while the stream
\* that visit opened is still open.
C26_IndicatorTruthful ==
    \A v \in Viewers : (eventSource[v] /= NoEventSource) <=> (LiveStreams(v) /= {})



\* ---------------------------------------------------- batch-wise summary
\* The batches attendees register in, in the order the dashboard lists them.
BatchOrder == <<"B1", "B2">>
Batches == {BatchOrder[i] : i \in DOMAIN BatchOrder}

\* The right side of a LEFT JOIN row for an attendee without attendance.
NullRow == 0

\* Registration of attendee a in batch b (batch is NOT NULL): the row of
\* Register with its batch.
RegisterIn(a, tok, b) ==
    LET row == [id |-> a, qr_data |-> tok, batch |-> b] IN
    /\ AttendeePkUnique(attendees, row)
    /\ QrDataUnique(attendees, row)
    /\ \A i \in 1..Len(AttendeeOrder) :
          AttendeeOrder[i] = a =>
              \A j \in 1..(i - 1) : \E p \in attendees : p.id = AttendeeOrder[j]
    /\ attendees' = attendees \cup {row}
    /\ UNCHANGED <<attendance, now, calls>>
    /\ UNCHANGED busVars
    /\ UNCHANGED clientVars
    /\ UNCHANGED uiVars
    /\ UNCHANGED appVars

\* attendees a LEFT JOIN attendance att ON a.id = att.attendee_id: one row
\* for each pair that matches, and one with a null right side for each
\* attendee that matches nothing. att is the index of the attendance row.
LeftJoin(people, rows) ==
    LET Matches(p) == {k \in 1..Len(rows) : rows[k].attendee_id = p.id} IN
    UNION {IF Matches(p) = {}
           THEN {[a |-> p, att |-> NullRow]}
           ELSE {[a |-> p, att |-> i] : i \in Matches(p)} : p \in people}

\* COUNT(a.id) and COUNT(att.id) over the group of batch b: COUNT skips
\* nulls, and a.id is never null.
CountAttendedAnyBatch(join, b) ==
    Cardinality({j.att : j \in {k \in join : k.att /= NullRow}})

CountRegistered(join, b) ==
    Cardinality({j \in join : j.a.batch = b})

CountAttended(join, b) ==
    Cardinality({j \in join : j.a.batch = b /\ j.att /= NullRow})

\* The view attendance_summary: one row for each batch that has an attendee
\* (GROUP BY a.batch). Its attendance_percentage column is not read by the
\* dashboard and is left out.
AttendanceSummary(people, rows) ==
    LET join == LeftJoin(people, rows) IN
    {[batch_name |-> b,
      total_registered |-> CountRegistered(join, b),
      total_attended |-> CountAttended(join, b)] : b \in {j.a.batch : j \in join}}

\* batch_wise_data of the dashboard answer: the rows of the summary in the
\* order of the batches, with (withEmpty) or without a row of zeros for each
\* batch nobody is registered in.
BatchWiseData(people, rows, withEmpty) ==
    LET summary == AttendanceSummary(people, rows)
        RowOf(b) ==
            IF \E r \in summary : r.batch_name = b
            THEN LET r == CHOOSE x \in summary : x.batch_name = b IN
                 [batch |-> b, total_registered |-> r.total_registered,
                  total_attended |-> r.total_attended]
            ELSE [batch |-> b, total_registered |-> 0, total_attended |-> 0]
        Listed(r) == withEmpty \/ r.total_registered > 0
    IN SelectSeq([i \in DOMAIN BatchOrder |-> RowOf(BatchOrder[i])], Listed)

\* Math.round(x) for x = num / den >= 0: the nearest integer, halves up.
MathRound(num, den) == (2 * num + den) \div (2 * den)

\* The Rate cell of a row of the Batch-wise Statistics table.
BatchRate(batch) ==
    IF batch.total_registered > 0
    THEN MathRound(batch.total_attended * 100, batch.total_registered)
    ELSE 0

\* loadDashboard of viewer v: GET /attendance/dashboard, setDashboardData.
LoadDashboard(v, withEmpty) ==
    /\ auth[v].view \in {"admin", "staff"}
    /\ dashboardData' = [dashboardData EXCEPT ![v] =
                            BatchWiseData(attendees, attendance, withEmpty)]
    /\ UNCHANGED <<auth, login, cleanup, scanner>>
    /\ UNCHANGED serverVars
    /\ UNCHANGED busVars
    /\ UNCHANGED clientVars
    /\ UNCHANGED uiVars

\* Registration into batches, check-in, and the dashboard's reads.
SummaryNext ==
    \/ \E a \in AttendeeIds, tok \in Tokens, b \in Batches : RegisterIn(a, tok, b)
    \/ \E c \in CallIds, tok \in ScanInputs : CheckInLookup(c, tok)
    \/ \E c \in CallIds : CheckInRecord(c)
    \/ \E c \in CallIds : CheckInEmit(c)
    \/ \E v \in Viewers, withEmpty \in BOOLEAN : LoadDashboard(v, withEmpty)

\* The dashboard's batch-wise statistics over the registration store.
SpecSummary == Init /\ [][SummaryNext]_vars

\* ---------------------------------------------------------------- C30
\* C30: in every row of batch-wise statistics a viewer holds, total_attended
\* is at most total_registered, the rate shown for the row is an integer
\* from 0 to 100, and it is 0 when total_registered is 0.
C30_BatchRateInRange ==
    \A v \in Viewers : \A i \in 1..Len(dashboardData[v]) :
        LET batch == dashboardData[v][i] IN
        /\ batch.total_attended <= batch.total_registered
        /\ BatchRate(batch) \in 0..100
        /\ batch.total_registered = 0 => BatchRate(batch) = 0

\* A viewer's dashboard shows a batch with nobody registered (rate 0) next
\* to a batch where one of two attendees has checked in (rate 50).
C30_Witness ==
    \E v \in Viewers :
        /\ Len(dashboardData[v]) = 2
        /\ \E i, j \in 1..2 :
              /\ dashboardData[v][i].total_registered = 0
              /\ dashboardData[v][j].total_registered = 2
              /\ dashboardData[v][j].total_attended = 1
              /\ BatchRate(dashboardData[v][j]) = 50

====
